---- MODULE Spec2Model ----
(***************************************************************************)
(* calyx-lsp: the Backend of src/src/main.rs (open-document table, symbol  *)
(* cache, configuration), the Document of src/src/document.rs and the      *)
(* definition provider of src/src/goto_definition.rs.                      *)
(*                                                                         *)
(* The handlers of the LanguageServer impl contain no await point, so one  *)
(* handler runs to its end before the next one starts; the file system is  *)
(* outside the server and changes between any two steps of a handler.      *)
(* An Option<T> is a sequence of length at most one.                       *)
(***************************************************************************)
EXTENDS Integers, Sequences, FiniteSets, TLC

\* ------------------------------------------------------------------ bounds
MaxEdits == 3       \* did_open / did_change / did_change_configuration notifications
MaxRequests == 1    \* goto_definition / completion requests
MaxRemovals == 1    \* files that disappear from the disk
MaxQueue == 4       \* length of the frontier queue

\* ------------------------------------------------------------- the universe
None == <<>>
Some(x) == <<x>>
IsSome(o) == Len(o) > 0
Unwrap(o) == o[1]

WorkDir == "/w"
LibDir == "~/.calyx"
\* a second library directory, with a character that is special in a URL
OptDir == "/opt/calyx#dev"
Dirs == {WorkDir, LibDir, OptDir}
Files == {"m.futil", "x.futil", "z.futil"}
AllPaths == Dirs \X Files
NoFile == "ENOENT"

\* lspt::Url::from_file_path and Url::to_file_path
UrlFromFilePath(p) == <<"file://", p>>
ToFilePath(u) == u[2]
Urls == {UrlFromFilePath(p) : p \in AllPaths}
\* Url::parse of "file://" followed by the display of a path, and
\* Url::to_file_path of the result: the text from the first '#' on is read
\* as the fragment of the URL, so the path of the URL ends before it
BeforeFragment(p) == IF p[1] = OptDir THEN <<"/opt", "calyx">> ELSE p
UrlParse(p) == <<"file://", BeforeFragment(p)>>
\* PathBuf::parent of a file path
Parent(p) == p[1]
\* lib_path.join(base_path).resolve()
Join(dir, base) == <<dir, base>>

\* ------------------------------------------------------- the parsing oracle
\* Declarations a text can contain (what the grammar's component and
\* primitive nodes carry).
FooComp ==
    [kind |-> "component", name |-> "Foo", inputs |-> <<"left", "right">>,
     outputs |-> <<"out">>, cells |-> <<>>, groups |-> <<>>]
FooPrim ==
    [kind |-> "primitive", name |-> "Foo", inputs |-> <<"left", "right">>,
     outputs |-> <<"out">>, cells |-> <<>>, groups |-> <<>>]
BarComp ==
    [kind |-> "component", name |-> "Bar", inputs |-> <<"in">>,
     outputs |-> <<"res">>, cells |-> <<>>, groups |-> <<>>]
MainComp ==
    [kind |-> "component", name |-> "main", inputs |-> <<"go">>,
     outputs |-> <<"done">>, cells |-> << <<"a", "Foo">> >>, groups |-> <<"g">>]

\* A point of a text, described by what the tree gives at that point: the
\* covering node (text, kind of its parent, siblings, index of the enclosing
\* component among the declarations),
\* the regions of the enclosing component that contain the point, and the
\* last word of the line before the cursor.
Pt(parent, txt, nxt, prv, comp, regions, word) ==
    [parent |-> parent, text |-> txt, next |-> nxt, prev |-> prv,
     comp |-> comp, regions |-> regions, word |-> word]
\* the identifier Foo of `a = Foo();` in the cell list of main
PtInst(k) == Pt("instantiation", "Foo", TRUE, FALSE, Some(k),
                {"cells", "component"}, Some("Foo"))
\* right after `a.` inside group g of main
PtDot(k) == Pt("port", "a", TRUE, FALSE, Some(k),
               {"group", "wires", "component"}, Some("a"))
\* the string of an import declaration
PtImport(f) == Pt("import", f, FALSE, TRUE, None, {}, Some("futil"))
\* the port name `out` of `a.out` inside group g
PtPortName(k) == Pt("port", "out", FALSE, TRUE, Some(k),
                    {"group", "wires", "component"}, Some("out"))
\* the `.` of `a.out` inside group g
PtPortDot(k) == Pt("port", ".", TRUE, TRUE, Some(k),
                   {"group", "wires", "component"}, Some("a"))
\* the port `done` of the component itself in a wire outside every group
PtSelfPort(k) == Pt("port", "done", FALSE, FALSE, Some(k),
                    {"wires", "component"}, Some("done"))
\* the group name of an enable `g;` in the control section
PtEnable(k) == Pt("enable", "g", FALSE, FALSE, Some(k),
                  {"control", "component"}, Some("g"))
\* a port name in the signature of the component
PtSignature(k) == Pt("io_port", "go", TRUE, FALSE, Some(k), {"component"}, Some("go"))
\* an indented empty line of the cell list: no word before the cursor
PtBlankCells(k) == Pt("cells", "", FALSE, FALSE, Some(k),
                      {"cells", "component"}, None)
\* right after `b.` inside group g, where the component has no cell b
PtUndeclared(k) == Pt("port", "b", TRUE, FALSE, Some(k),
                      {"group", "wires", "component"}, Some("b"))
\* the end of the closing brace of the component: under the component node
\* and outside its range
PtBrace(k) == Pt("component", "}", FALSE, TRUE, Some(k), {}, None)

Texts == {"tMain", "tLocal", "tPrim", "tFoo", "tVia", "tCyc"}

\* ts::Parser::parse: the tree of a text
Parse(text) ==
    CASE text = "tMain" ->
            [imports |-> <<"x.futil">>, decls |-> <<MainComp>>,
             points |-> <<PtInst(1), PtDot(1), PtImport("x.futil")>>]
      [] text = "tLocal" ->
            [imports |-> <<>>, decls |-> <<FooComp, MainComp>>,
             points |-> <<PtInst(2), PtDot(2), PtSelfPort(2), PtEnable(2),
                          PtUndeclared(2)>>]
      [] text = "tPrim" ->
            [imports |-> <<>>, decls |-> <<FooPrim, MainComp>>,
             points |-> <<PtInst(2), PtDot(2)>>]
      [] text = "tFoo" ->
            [imports |-> <<>>, decls |-> <<FooComp>>, points |-> <<>>]
      [] text = "tVia" ->
            [imports |-> <<"z.futil">>, decls |-> <<BarComp>>,
             points |-> <<PtImport("z.futil")>>]
      [] text = "tCyc" ->
            [imports |-> <<"m.futil">>, decls |-> <<>>,
             points |-> <<PtImport("m.futil")>>]
      [] text = "tAll" ->
            [imports |-> <<"x.futil", "z.futil">>, decls |-> <<BarComp, MainComp>>,
             points |-> <<PtInst(2), PtDot(2), PtPortName(2), PtPortDot(2),
                          PtSelfPort(2), PtEnable(2), PtSignature(2),
                          PtBlankCells(2), PtBrace(2), PtImport("x.futil")>>]

\* ------------------------------------------------------------ Document
EmptyMap == [n \in {} |-> None]
SeqRange(s) == {s[i] : i \in DOMAIN s}
MaxOf(S) == CHOOSE i \in S : \A j \in S : j <= i
MinOf(S) == CHOOSE i \in S : \A j \in S : i <= j
\* Iterator::collect into a HashMap of a sequence of <<key, value>> pairs:
\* a later pair replaces an earlier one with the same key
CollectMap(pairs) ==
    [k \in {pairs[i][1] : i \in DOMAIN pairs} |->
        pairs[MaxOf({i \in DOMAIN pairs : pairs[i][1] = k})][2]]

\* Document::new
DocumentNew(url) ==
    [url |-> url, text |-> "", tree |-> None, components |-> EmptyMap]

\* Document::root_node, as the declarations under the root (none without a tree)
RootDecls(doc) == IF IsSome(doc.tree) THEN Unwrap(doc.tree).decls ELSE <<>>

PrivateComponentInfo(d) ==
    [inputs |-> d.inputs, outputs |-> d.outputs,
     cells |-> CollectMap(d.cells), groups |-> d.groups]

\* update_component_map with the entries of the old table kept and the ports
\* of a component declared again appended to the ones it had
update_component_map_accumulating(doc) ==
    LET decls == RootDecls(doc)
        comps == SelectSeq([i \in DOMAIN decls |-> <<decls[i].name, decls[i]>>],
                           LAMBDA pr : pr[2].kind = "component")
        new == CollectMap([i \in DOMAIN comps |->
                              <<comps[i][1], PrivateComponentInfo(comps[i][2])>>])
        old == doc.components
    IN  [n \in DOMAIN old \cup DOMAIN new |->
            IF n \notin DOMAIN new THEN old[n]
            ELSE IF n \notin DOMAIN old THEN new[n]
            ELSE [new[n] EXCEPT !.inputs = old[n].inputs \o @,
                                !.outputs = old[n].outputs \o @]]

\* Document::update_component_map: the table is replaced by one entry per
\* (component ...) match of the tree
update_component_map(doc) ==
    LET decls == RootDecls(doc)
        comps == SelectSeq([i \in DOMAIN decls |-> <<decls[i].name, decls[i]>>],
                           LAMBDA pr : pr[2].kind = "component")
    IN  CollectMap([i \in DOMAIN comps |->
                        <<comps[i][1], PrivateComponentInfo(comps[i][2])>>])

\* parse_whole_text with the table rebuilt before the tree is replaced
parse_whole_text_table_first(doc, text) ==
    LET d1 == [doc EXCEPT !.text = text, !.components = update_component_map(doc)]
    IN  [d1 EXCEPT !.tree = Some(Parse(d1.text))]

\* Document::parse_whole_text
parse_whole_text(doc, text) ==
    LET d1 == [doc EXCEPT !.text = text]
        d2 == [d1 EXCEPT !.tree = Some(Parse(d1.text))]
    IN  [d2 EXCEPT !.components = update_component_map(d2)]

\* Document::new_with_text
new_with_text(url, text) == parse_whole_text(DocumentNew(url), text)

\* Document::components: the name identifiers of every component and
\* primitive, as indices of their declarations in document order
components(doc) ==
    LET decls == RootDecls(doc)
    IN  SelectSeq([i \in DOMAIN decls |-> i],
                  LAMBDA i : decls[i].kind \in {"component", "primitive"})

\* Document::raw_imports
raw_imports(doc) == IF IsSome(doc.tree) THEN Unwrap(doc.tree).imports ELSE <<>>

\* resolve_imports without the directory of the current file
resolve_imports_library_only(cur_dir, lib_paths, imports, d) ==
    LET n == Len(lib_paths)
        cand == [k \in 1..(Len(imports) * n) |->
                    Join(lib_paths[((k - 1) % n) + 1], imports[((k - 1) \div n) + 1])]
    IN  SelectSeq(cand, LAMBDA p : d[p] # NoFile)

\* resolve_imports with the product taken the other way round: every root
\* joined with each import
resolve_imports_by_root(cur_dir, lib_paths, imports, d) ==
    LET roots == <<cur_dir>> \o lib_paths
        n == Len(imports)
        cand == [k \in 1..(Len(roots) * n) |->
                    Join(roots[((k - 1) \div n) + 1], imports[((k - 1) % n) + 1])]
    IN  SelectSeq(cand, LAMBDA p : d[p] # NoFile)

\* Document::resolved_imports (and resolve_imports): every import joined with
\* the current directory and then with each library path, kept when the path
\* exists on the disk d
resolve_imports(cur_dir, lib_paths, imports, d) ==
    LET roots == <<cur_dir>> \o lib_paths
        n == Len(roots)
        cand == [k \in 1..(Len(imports) * n) |->
                    Join(roots[((k - 1) % n) + 1], imports[((k - 1) \div n) + 1])]
    IN  SelectSeq(cand, LAMBDA p : d[p] # NoFile)

resolved_imports(doc, cfg, d) ==
    resolve_imports(Parent(ToFilePath(doc.url)), cfg.library_paths,
                    raw_imports(doc), d)

ComponentSig(d) == [inputs |-> d.inputs, outputs |-> d.outputs]

\* Document::signatures
signatures(doc) ==
    LET decls == RootDecls(doc)
        cs == components(doc)
    IN  [i \in DOMAIN cs |-> <<decls[cs[i]].name, ComponentSig(decls[cs[i]])>>]

\* Document::node_at_point
node_at_point(doc, point) ==
    IF IsSome(doc.tree) /\ point \in DOMAIN Unwrap(doc.tree).points
    THEN Some(Unwrap(doc.tree).points[point])
    ELSE None

\* Things: Cell, SelfPort, Group and Import carry the node, Component the name
Thing(tag, node, name) == [tag |-> tag, node |-> node, name |-> name]

\* thing_at_point with the two sibling tests of a port reference swapped
thing_at_point_self_port_first(doc, point) ==
    LET on == node_at_point(doc, point)
        node == Unwrap(on)
    IN  IF ~IsSome(on) THEN None
        ELSE IF node.parent = "port" THEN
                 IF ~node.prev THEN Some(Thing("SelfPort", node, node.text))
                 ELSE IF node.next THEN Some(Thing("Cell", node, node.text))
                 ELSE None
        ELSE IF node.parent = "enable" THEN Some(Thing("Group", node, node.text))
        ELSE IF node.parent = "hole" THEN
                 IF node.next THEN Some(Thing("Group", node, node.text)) ELSE None
        ELSE IF node.parent = "port_with" THEN Some(Thing("Group", node, node.text))
        ELSE IF node.parent = "instantiation" THEN
                 Some(Thing("Component", node, node.text))
        ELSE IF node.parent = "import" THEN Some(Thing("Import", node, node.text))
        ELSE None

\* Document::thing_at_point
thing_at_point(doc, point) ==
    LET on == node_at_point(doc, point)
        node == Unwrap(on)
    IN  IF ~IsSome(on) THEN None
        ELSE IF node.parent = "port" THEN
                 IF node.next THEN Some(Thing("Cell", node, node.text))
                 ELSE IF ~node.prev THEN Some(Thing("SelfPort", node, node.text))
                 ELSE None
        ELSE IF node.parent = "enable" THEN Some(Thing("Group", node, node.text))
        ELSE IF node.parent = "hole" THEN
                 IF node.next THEN Some(Thing("Group", node, node.text)) ELSE None
        ELSE IF node.parent = "port_with" THEN Some(Thing("Group", node, node.text))
        ELSE IF node.parent = "instantiation" THEN
                 Some(Thing("Component", node, node.text))
        ELSE IF node.parent = "import" THEN Some(Thing("Import", node, node.text))
        ELSE None

\* context_at_point with the sections looked up in the component the point is
\* assumed to be in: without one, the answer is Component
context_at_point_in_component(doc, point) ==
    LET on == node_at_point(doc, point)
        node == Unwrap(on)
    IN  IF ~IsSome(on) \/ ~IsSome(node.comp) THEN "Component"
        ELSE IF "cells" \in node.regions THEN "Cells"
        ELSE IF "group" \in node.regions THEN "Group"
        ELSE IF "wires" \in node.regions THEN "Wires"
        ELSE IF "control" \in node.regions THEN "Control"
        ELSE IF "component" \in node.regions THEN "Component"
        ELSE "Toplevel"

\* context_at_point with the wiring section tested before the groups
context_at_point_wires_first(doc, point) ==
    LET on == node_at_point(doc, point)
        node == Unwrap(on)
    IN  IF ~IsSome(on) \/ ~IsSome(node.comp) THEN "Toplevel"
        ELSE IF "cells" \in node.regions THEN "Cells"
        ELSE IF "wires" \in node.regions THEN "Wires"
        ELSE IF "group" \in node.regions THEN "Group"
        ELSE IF "control" \in node.regions THEN "Control"
        ELSE IF "component" \in node.regions THEN "Component"
        ELSE "Toplevel"

\* Document::context_at_point
context_at_point(doc, point) ==
    LET on == node_at_point(doc, point)
        node == Unwrap(on)
    IN  IF ~IsSome(on) \/ ~IsSome(node.comp) THEN "Toplevel"
        ELSE IF "cells" \in node.regions THEN "Cells"
        ELSE IF "group" \in node.regions THEN "Group"
        ELSE IF "wires" \in node.regions THEN "Wires"
        ELSE IF "control" \in node.regions THEN "Control"
        ELSE IF "component" \in node.regions THEN "Component"
        ELSE "Toplevel"

\* Document::last_word_from_point
last_word_from_point(doc, point) ==
    LET on == node_at_point(doc, point)
    IN  IF IsSome(on) THEN Unwrap(on).word ELSE None

\* Document::enclosing_component_name
enclosing_component_name(doc, node) ==
    IF IsSome(node.comp) THEN Some(RootDecls(doc)[Unwrap(node.comp)].name) ELSE None

\* ---------------------------------------------------- definition provider
\* QueryResult / DefinitionResult
Found(x) == [tag |-> "Found", val |-> Some(x), paths |-> <<>>, name |-> ""]
ContinueSearch(paths, name) ==
    [tag |-> "ContinueSearch", val |-> None, paths |-> paths, name |-> name]

\* lspt::Location::new(url, Range::from(node)), the node given by what it is
Location(url, what, idx) == [url |-> url, range |-> <<what, idx>>]
\* Range::zero()
RangeZero == <<"zero", 0>>

\* Iterator::find over a capture list: the first of the matching positions
FirstIndex(hits) == IF hits = {} THEN None ELSE Some(MinOf(hits))

\* find_cell that hands an undeclared cell over to a search of other files
find_cell_across_files(doc, url, node, name) ==
    IF ~IsSome(node.comp) THEN None
    ELSE LET cells == RootDecls(doc)[Unwrap(node.comp)].cells
             hit == FirstIndex({i \in DOMAIN cells : cells[i][1] = name})
         IN  IF IsSome(hit) THEN Some(Found(Location(url, "cell", Unwrap(hit))))
             ELSE Some(ContinueSearch(<<>>, name))

\* Document::find_cell: the cell assignments of the enclosing component
find_cell(doc, url, node, name) ==
    IF ~IsSome(node.comp) THEN None
    ELSE LET cells == RootDecls(doc)[Unwrap(node.comp)].cells
             hit == FirstIndex({i \in DOMAIN cells : cells[i][1] = name})
         IN  IF IsSome(hit) THEN Some(Found(Location(url, "cell", Unwrap(hit))))
             ELSE None

\* Document::find_self_port: the io ports of the enclosing component
find_self_port(doc, url, node, name) ==
    IF ~IsSome(node.comp) THEN None
    ELSE LET d == RootDecls(doc)[Unwrap(node.comp)]
             ports == d.inputs \o d.outputs
             hit == FirstIndex({i \in DOMAIN ports : ports[i] = name})
         IN  IF IsSome(hit) THEN Some(Found(Location(url, "io_port", Unwrap(hit))))
             ELSE None

\* Document::find_group: the groups of the enclosing component
find_group(doc, url, node, name) ==
    IF ~IsSome(node.comp) THEN None
    ELSE LET groups == RootDecls(doc)[Unwrap(node.comp)].groups
             hit == FirstIndex({i \in DOMAIN groups : groups[i] = name})
         IN  IF IsSome(hit) THEN Some(Found(Location(url, "group", Unwrap(hit))))
             ELSE None

\* find_import without the test that the candidate exists
find_import_unfiltered(doc, cfg, url, name, d) ==
    Some(Found([url |-> UrlFromFilePath(Join(Parent(ToFilePath(url)), name)),
                range |-> RangeZero]))

\* Document::find_import
find_import(doc, cfg, url, name, d) ==
    LET paths == resolve_imports(Parent(ToFilePath(url)), cfg.library_paths,
                                 <<name>>, d)
    IN  IF Len(paths) > 0
        THEN Some(Found([url |-> UrlParse(paths[1]), range |-> RangeZero]))
        ELSE None

\* find_component that looks among the components only, not the primitives
find_component_components_only(doc, cfg, url, name, d) ==
    LET decls == RootDecls(doc)
        hit == FirstIndex({i \in DOMAIN decls :
                             decls[i].kind = "component" /\ decls[i].name = name})
    IN  IF IsSome(hit)
        THEN Some(Found(Location(url, "component", Unwrap(hit))))
        ELSE Some(ContinueSearch(
                  resolve_imports(Parent(ToFilePath(url)), cfg.library_paths,
                                  raw_imports(doc), d),
                  name))

\* Document::find_component
find_component(doc, cfg, url, name, d) ==
    LET decls == RootDecls(doc)
        cs == components(doc)
        hit == FirstIndex({i \in DOMAIN cs : decls[cs[i]].name = name})
    IN  IF IsSome(hit)
        THEN Some(Found(Location(url, "component", cs[Unwrap(hit)])))
        ELSE Some(ContinueSearch(
                  resolve_imports(Parent(ToFilePath(url)), cfg.library_paths,
                                  raw_imports(doc), d),
                  name))

\* DefinitionProvider::find_thing
find_thing(doc, cfg, url, thing, d) ==
    CASE thing.tag = "Cell" -> find_cell(doc, url, thing.node, thing.name)
      [] thing.tag = "SelfPort" -> find_self_port(doc, url, thing.node, thing.name)
      [] thing.tag = "Group" -> find_group(doc, url, thing.node, thing.name)
      [] thing.tag = "Import" -> find_import(doc, cfg, url, thing.name, d)
      [] thing.tag = "Component" -> find_component(doc, cfg, url, thing.name, d)

\* ------------------------------------------------------------- completion
\* the entries (name, "input") of the inputs followed by (name, "output")
PortItems(sig) ==
    [i \in DOMAIN sig.inputs |-> <<sig.inputs[i], "input">>]
        \o [i \in DOMAIN sig.outputs |-> <<sig.outputs[i], "output">>]

\* the keys of a HashMap, in a fixed order
RECURSIVE KeySeq(_)
KeySeq(S) ==
    IF S = {} THEN <<>>
    ELSE LET k == CHOOSE x \in S : TRUE IN <<k>> \o KeySeq(S \ {k})

\* format!("{g}[go]"), format!("{g}[done]"), format!("{g}")
Format(g, suffix) ==
    CASE g = "g" /\ suffix = "[go]" -> "g[go]"
      [] g = "g" /\ suffix = "[done]" -> "g[done]"
      [] OTHER -> g

\* Document::completion_at_point
completion_at_point(doc, cfg, point, trigger_char, d) ==
    LET word == last_word_from_point(doc, point)
        on == node_at_point(doc, point)
        node == Unwrap(on)
        ctx == context_at_point(doc, point)
        ecn == enclosing_component_name(doc, node)
        ci == IF IsSome(ecn) /\ Unwrap(ecn) \in DOMAIN doc.components
              THEN Some(doc.components[Unwrap(ecn)]) ELSE None
        cells == KeySeq(DOMAIN Unwrap(ci).cells)
        groups == Unwrap(ci).groups
        res ==
            IF ~IsSome(word) \/ ~IsSome(on) THEN None
            ELSE IF ctx \in {"Toplevel", "Component"} THEN None
            ELSE IF ctx = "Cells" THEN
                LET ks == KeySeq(DOMAIN doc.components)
                IN  Some(Found([i \in DOMAIN ks |-> <<ks[i], "component">>]))
            ELSE IF ctx \in {"Group", "Wires"} /\ trigger_char = Some(".") THEN
                IF IsSome(ci) /\ Unwrap(word) \in DOMAIN Unwrap(ci).cells
                THEN LET cell_name == Unwrap(ci).cells[Unwrap(word)]
                     IN  IF cell_name \in DOMAIN doc.components
                         THEN Some(Found(PortItems(doc.components[cell_name])))
                         ELSE Some(ContinueSearch(resolved_imports(doc, cfg, d),
                                                  cell_name))
                ELSE None
            ELSE IF ctx = "Group" THEN
                IF IsSome(ci)
                THEN Some(Found(
                        [i \in DOMAIN cells |-> <<cells[i], "cell">>]
                        \o [k \in 1..(3 * Len(groups)) |->
                              <<Format(groups[((k - 1) \div 3) + 1],
                                       <<"[go]", "[done]", "">>[((k - 1) % 3) + 1]),
                                "hole">>]))
                ELSE None
            ELSE IF ctx = "Wires" THEN
                IF IsSome(ci)
                THEN Some(Found([i \in DOMAIN cells |-> <<cells[i], "cell">>]))
                ELSE None
            ELSE \* Control
                IF IsSome(ci)
                THEN Some(Found([i \in DOMAIN groups |-> <<groups[i], "group">>]))
                ELSE None
    IN  IF IsSome(res) THEN Unwrap(res) ELSE Found(<<>>)

\* ------------------------------------------------ file-system operations
\* The file-system operations of a function: fs::read_to_string
\* ("read_file"), Path::exists ("exists"), Debug::update ("debug_snapshot")
\* and Debug::stdout ("debug_log").
\* Document::parse_whole_text ends with log::Debug::update("tree", ..)
parse_whole_text_io == {"debug_snapshot"}
\* resolve_imports / resolved_imports: filter(|p| p.exists()) on every candidate
resolve_imports_io(imports) == IF imports = <<>> THEN {} ELSE {"exists"}
\* Document::find_component: the imports are resolved when no component of
\* the file has the name
find_component_io(doc, name) ==
    IF \E i \in DOMAIN components(doc) :
           RootDecls(doc)[components(doc)[i]].name = name
    THEN {}
    ELSE resolve_imports_io(raw_imports(doc))
\* DefinitionProvider::find_thing
find_thing_io(doc, thing) ==
    CASE thing.tag = "Import" -> resolve_imports_io(<<thing.name>>)
      [] thing.tag = "Component" -> find_component_io(doc, thing.name)
      [] OTHER -> {}
\* Document::completion_at_point: log::stdout!("completing: {word}") once
\* there is a word, and the imports resolved for ContinueSearch
completion_at_point_io(doc, cfg, point, trigger_char, d) ==
    IF ~IsSome(last_word_from_point(doc, point)) THEN {}
    ELSE {"debug_log"}
         \cup IF completion_at_point(doc, cfg, point, trigger_char, d).tag
                   = "ContinueSearch"
              THEN resolve_imports_io(raw_imports(doc))
              ELSE {}

\* ---------------------------------------------------------------- Backend
VARIABLES
    disk,       \* the file system: path -> text, or NoFile
    open_docs,  \* Backend.open_docs: url -> Document
    symbols,    \* Backend.symbols: url -> (component name -> ComponentSig)
    config,     \* Backend.config
    poisoned,   \* the RwLocks poisoned by a panic under their write guard
    crashed,    \* a handler has panicked
    req,        \* the goto_definition / completion request in progress
    last,       \* the notification handled last
    io_locked,  \* the file-system operations the step just taken performed
                \* while it held a guard of open_docs
    locks,      \* the guards of the three RwLocks the running handler holds,
                \* and the lock operations of the step just taken
    nEdits, nRequests, nRemovals

vars == <<disk, open_docs, symbols, config, poisoned, crashed, req, last,
          io_locked, locks, nEdits, nRequests, nRemovals>>

\* the files the client opens, edits and asks about
ClientUrls ==
    {UrlFromFilePath(<<WorkDir, "m.futil">>), UrlFromFilePath(<<WorkDir, "x.futil">>)}
Points == 1..5
Triggers == {None, Some(".")}
\* the settings a client sends: library-paths lists, or a value that does not
\* deserialize into Config
Json(well_formed, paths) == [well_formed |-> well_formed, library_paths |-> paths]
Malformed == Json(FALSE, <<>>)
Settings == {Json(TRUE, <<>>), Json(TRUE, <<LibDir>>), Malformed}

\* serde_json::from_value::<Config>: Err unless the value has the shape
\* {"calyx-lsp": {"library-paths": [strings]}}
from_value(settings) ==
    IF settings.well_formed THEN Some([library_paths |-> settings.library_paths])
    ELSE None

\* CalyxLspConfig::default
ConfigDefault == [library_paths |-> <<LibDir>>]

\* HashMap::insert
MapPut(m, k, v) == [x \in DOMAIN m \cup {k} |-> IF x = k THEN v ELSE m[x]]

\* Backend::open
open(docs, uri, text) == MapPut(docs, uri, new_with_text(uri, text))

\* Backend::open_path: fs::read_to_string(..).ok().map(open)
open_path(docs, uri, d) ==
    IF d[ToFilePath(uri)] # NoFile THEN open(docs, uri, d[ToFilePath(uri)]) ELSE docs

\* Backend::exists
exists(docs, uri) == uri \in DOMAIN docs

\* Backend::read_document
read_document(docs, uri) == IF uri \in DOMAIN docs THEN Some(docs[uri]) ELSE None

\* Backend::update with the updater of did_change: parse_whole_text for each
\* content change in turn
RECURSIVE ApplyChanges(_, _)
ApplyChanges(doc, changes) ==
    IF changes = <<>> THEN doc
    ELSE ApplyChanges(parse_whole_text(doc, Head(changes)), Tail(changes))

update(docs, uri, changes) ==
    IF uri \in DOMAIN docs
    THEN [docs EXCEPT ![uri] = ApplyChanges(docs[uri], changes)]
    ELSE docs

\* update_symbols that inserts an empty entry, instead of unwrapping, when
\* the document is not in the table
update_symbols_or_default(syms, docs, url) ==
    LET od == read_document(docs, url)
        new == IF IsSome(od) THEN CollectMap(signatures(Unwrap(od))) ELSE EmptyMap
    IN  IF url \in DOMAIN syms
        THEN [panic |-> FALSE,
              symbols |->
                  [syms EXCEPT ![url] =
                      [n \in DOMAIN syms[url] \cup DOMAIN new |->
                          IF n \in DOMAIN new THEN new[n] ELSE syms[url][n]]]]
        ELSE [panic |-> FALSE, symbols |-> MapPut(syms, url, new)]

\* Backend::update_symbols: entry(url).and_modify(insert every signature)
\* .or_insert_with(read_document(..).unwrap()); panics on the unwrap when the
\* entry is vacant and the document is not in the table
update_symbols(syms, docs, url) ==
    LET od == read_document(docs, url)
        new == CollectMap(signatures(Unwrap(od)))
    IN  IF url \in DOMAIN syms
        THEN [panic |-> FALSE,
              symbols |->
                  IF IsSome(od)
                  THEN [syms EXCEPT ![url] =
                          [n \in DOMAIN syms[url] \cup DOMAIN new |->
                              IF n \in DOMAIN new THEN new[n] ELSE syms[url][n]]]
                  ELSE syms]
        ELSE IF IsSome(od)
             THEN [panic |-> FALSE, symbols |-> MapPut(syms, url, new)]
             ELSE [panic |-> TRUE, symbols |-> syms]

\* ------------------------------------------------------- lock operations
\* RwLock::read / RwLock::write and the drop of the guard
Acquire(lock, mode) == [op |-> "acquire", lock |-> lock, mode |-> mode]
Release(lock, mode) == [op |-> "release", lock |-> lock, mode |-> mode]
NoLocks == [held |-> {}, trace |-> <<>>]
\* the guards held after the operations of a trace
RECURSIVE HeldAfter(_, _)
HeldAfter(held, trace) ==
    IF trace = <<>> THEN held
    ELSE LET e == Head(trace)
         IN  HeldAfter(IF e.op = "acquire" THEN held \cup {<<e.lock, e.mode>>}
                       ELSE held \ {<<e.lock, e.mode>>},
                       Tail(trace))
Locking(held, trace) == [held |-> HeldAfter(held, trace), trace |-> trace]
\* a panic unwinds the handler: every guard it holds is dropped
Unwound(trace) == [held |-> {}, trace |-> trace]

\* Backend::exists
exists_locks == <<Acquire("open_docs", "read"), Release("open_docs", "read")>>
\* Backend::open
open_locks == <<Acquire("open_docs", "write"), Release("open_docs", "write")>>
\* Backend::open_path: open is called when the file could be read
open_path_locks(uri, d) == IF d[ToFilePath(uri)] # NoFile THEN open_locks ELSE <<>>
\* Backend::read_document: the reader runs under the read guard
read_document_locks ==
    <<Acquire("open_docs", "read"), Release("open_docs", "read")>>
\* Backend::update
update_locks == <<Acquire("open_docs", "write"), Release("open_docs", "write")>>
\* Backend::update_symbols: read_document is called from the closures of the
\* entry, under the symbols write guard, which is dropped at the end of the
\* statement (or by the panic); then the symbols are read for the debug log
update_symbols_locks(panic) ==
    <<Acquire("symbols", "write"), Acquire("open_docs", "read"),
      Release("open_docs", "read"), Release("symbols", "write")>>
    \o IF panic THEN <<>>
       ELSE <<Acquire("symbols", "read"), Release("symbols", "read")>>
\* did_change with update_symbols called from the updater, under the write
\* guard of open_docs
did_change_locks_nested(panic) ==
    <<Acquire("open_docs", "write")>> \o update_symbols_locks(panic)
    \o <<Release("open_docs", "write")>>
\* LanguageServer::did_change: update, then update_symbols
did_change_locks(panic) == update_locks \o update_symbols_locks(panic)
\* LanguageServer::did_change_configuration: the write guard is taken after
\* from_value(..).unwrap() and dropped at the end of the statement
did_change_configuration_locks(settings) ==
    IF IsSome(from_value(settings))
    THEN <<Acquire("config", "write"), Release("config", "write")>>
    ELSE <<>>
\* goto_definition and completion up to the loop with a config guard that
\* lasts for the first lookup only
request_locks_per_lookup(returns) ==
    <<Acquire("config", "read")>> \o read_document_locks
    \o <<Release("config", "read")>>
\* goto_definition and completion up to the loop: `self.config.read()` is
\* bound for the whole function, the document is read, and the guard is
\* dropped when the function returns
request_locks(returns) ==
    <<Acquire("config", "read")>> \o read_document_locks
    \o IF returns THEN <<Release("config", "read")>> ELSE <<>>
\* the function returns from the loop: the config guard is dropped
return_locks == <<Release("config", "read")>>
\* `while let Some(p) = queue.pop()`: the exists test of read_and_open, after
\* the one of the loop body in completion when that found the url absent
loop_pop_locks(kind, absent) ==
    IF kind = "completion" /\ absent THEN exists_locks \o exists_locks
    ELSE exists_locks
\* completion, `if let Some(blah) = self.symbols.read().unwrap()...`: the read
\* guard lives to the end of the if let; a hit leaves the loop and returns
completion_lookup_locks(hit) ==
    <<Acquire("symbols", "read"), Release("symbols", "read")>>
    \o IF hit THEN return_locks ELSE <<>>

\* ------------------------------------------------------------- the state
IdleReq ==
    [kind |-> "none", pc |-> "idle", url |-> <<>>, point |-> 0, trigger |-> None,
     first |-> None, name |-> "", queue |-> <<>>, cur |-> None, found |-> None,
     result |-> None, queued |-> {}, probed |-> {}]
NoSettings == [well_formed |-> FALSE, library_paths |-> <<>>]
NoLast ==
    [op |-> "none", url |-> <<>>, text |-> "", settings |-> NoSettings,
     again |-> FALSE]
\* the record of a notification; `again` tells that it repeats the one before
Note(op, uri, text, settings) ==
    [op |-> op, url |-> uri, text |-> text, settings |-> settings,
     again |-> last.op = op /\ last.url = uri /\ last.text = text
               /\ last.settings = settings]

\* The disk layouts the server is started on.
Layout(wm, wx, lx, lz) ==
    [p \in AllPaths |->
        CASE p = <<WorkDir, "m.futil">> -> wm
          [] p = <<WorkDir, "x.futil">> -> wx
          [] p = <<LibDir, "x.futil">> -> lx
          [] p = <<LibDir, "z.futil">> -> lz
          [] OTHER -> NoFile]
Layouts ==
    {Layout("tMain", "tFoo", "tFoo", NoFile),     \* Foo next to m and in the library
     Layout("tMain", "tVia", NoFile, "tFoo"),     \* Foo two imports away
     Layout("tMain", "tCyc", "tVia", "tFoo"),     \* m and x import each other
     Layout("tMain", "tVia", "tFoo", NoFile)}     \* Foo only in the library

Init ==
    /\ disk \in Layouts
    /\ open_docs = EmptyMap
    /\ symbols = EmptyMap
    /\ config = ConfigDefault
    /\ poisoned = {}
    /\ crashed = FALSE
    /\ req = IdleReq
    /\ last = NoLast
    /\ io_locked = {}
    /\ locks = NoLocks
    /\ nEdits = 0
    /\ nRequests = 0
    /\ nRemovals = 0

\* no handler is running
Quiet == ~crashed /\ req.pc \in {"idle", "done"}

\* a panic under the symbols write guard
Panic(guards) ==
    /\ crashed' = TRUE
    /\ poisoned' = poisoned \cup guards

\* ---------------------------------------------------------- notifications
\* LanguageServer::did_open
did_open(uri, text) ==
    /\ Quiet /\ nEdits < MaxEdits
    /\ open_docs' = open(open_docs, uri, text)
    /\ last' = Note("did_open", uri, text, NoSettings)
    /\ req' = IdleReq
    /\ nEdits' = nEdits + 1
    /\ locks' = Locking(locks.held, open_locks)
    /\ io_locked' = parse_whole_text_io
    /\ UNCHANGED <<disk, symbols, config, poisoned, crashed, nRequests, nRemovals>>

\* LanguageServer::did_change
did_change(uri, changes) ==
    /\ Quiet /\ nEdits < MaxEdits
    /\ LET docs == update(open_docs, uri, changes)
           us == update_symbols(symbols, docs, uri)
       IN  /\ open_docs' = docs
           /\ symbols' = us.symbols
           /\ IF us.panic THEN Panic({"symbols"})
              ELSE UNCHANGED <<crashed, poisoned>>
    /\ last' = Note("did_change", uri, changes[Len(changes)], NoSettings)
    /\ req' = IdleReq
    /\ nEdits' = nEdits + 1
    /\ locks' = LET panic == update_symbols(symbols, update(open_docs, uri, changes),
                                        uri).panic
                IN  IF panic THEN Unwound(did_change_locks(panic))
                    ELSE Locking(locks.held, did_change_locks(panic))
    /\ io_locked' = IF uri \in DOMAIN open_docs THEN parse_whole_text_io ELSE {}
    /\ UNCHANGED <<disk, config, nRequests, nRemovals>>

\* LanguageServer::did_change_configuration:
\* serde_json::from_value(settings).unwrap(), then the config is replaced
did_change_configuration(settings) ==
    /\ Quiet /\ nEdits < MaxEdits
    /\ IF IsSome(from_value(settings))
       THEN config' = Unwrap(from_value(settings)) /\ UNCHANGED <<crashed, poisoned>>
       ELSE Panic({}) /\ UNCHANGED config
    /\ last' = Note("did_change_configuration", <<>>, "", settings)
    /\ req' = IdleReq
    /\ nEdits' = nEdits + 1
    /\ locks' = Locking(locks.held, did_change_configuration_locks(settings))
    /\ io_locked' = {}
    /\ UNCHANGED <<disk, open_docs, symbols, nRequests, nRemovals>>

\* A file disappears from the disk (the file system is not the server's).
fs_remove(p) ==
    /\ ~crashed /\ nRemovals < MaxRemovals
    /\ disk[p] # NoFile
    /\ disk' = [disk EXCEPT ![p] = NoFile]
    /\ nRemovals' = nRemovals + 1
    /\ req' = IF req.pc = "done" THEN IdleReq ELSE req
    /\ last' = NoLast
    /\ locks' = Locking(locks.held, <<>>)
    /\ io_locked' = {}
    /\ UNCHANGED <<open_docs, symbols, config, poisoned, crashed, nEdits, nRequests>>

\* ---------------------------------------------------------------- requests
\* Vec::pop: the last element leaves the queue
Pop(queue) == SubSeq(queue, 1, Len(queue) - 1)
\* the path at the front of the queue, the one that has waited longest
Back_oldest(queue) == queue[1]
\* the element Vec::pop returns: the last one
Back(queue) == queue[Len(queue)]

Begin(kind, uri, point, trigger) ==
    [IdleReq EXCEPT !.kind = kind, !.url = uri, !.point = point,
                    !.trigger = trigger]

\* LanguageServer::goto_definition up to the match on the first result: the
\* config read guard is taken, the document is read, the Thing under the
\* cursor is found in the current file or a search is begun.
goto_definition(uri, point) ==
    /\ Quiet /\ nRequests < MaxRequests
    /\ LET od == read_document(open_docs, uri)
           thing == IF IsSome(od) THEN thing_at_point(Unwrap(od), point) ELSE None
           gdr == IF IsSome(thing)
                  THEN find_thing(Unwrap(od), config, uri, Unwrap(thing), disk)
                  ELSE None
           r == Begin("goto_definition", uri, point, None)
       IN  req' =
             IF ~IsSome(gdr) THEN [r EXCEPT !.pc = "done"]
             ELSE IF Unwrap(gdr).tag = "Found"
             THEN [r EXCEPT !.pc = "done", !.first = gdr, !.result = Unwrap(gdr).val]
             ELSE [r EXCEPT !.pc = "loop", !.first = gdr,
                            !.queue = Unwrap(gdr).paths,
                            !.name = Unwrap(gdr).name,
                            !.queued = SeqRange(Unwrap(gdr).paths)]
    /\ last' = NoLast
    /\ nRequests' = nRequests + 1
    /\ locks' = Locking(locks.held, request_locks(req'.pc = "done"))
    /\ io_locked' = LET od == read_document(open_docs, uri)
                        thing == IF IsSome(od) THEN thing_at_point(Unwrap(od), point)
                                 ELSE None
                    IN  IF IsSome(thing) THEN find_thing_io(Unwrap(od), Unwrap(thing))
                        ELSE {}
    /\ UNCHANGED <<disk, open_docs, symbols, config, poisoned, crashed, nEdits,
                   nRemovals>>

\* LanguageServer::completion up to the match on the first result
completion(uri, point, trigger) ==
    /\ Quiet /\ nRequests < MaxRequests
    /\ LET od == read_document(open_docs, uri)
           res == IF IsSome(od)
                  THEN Some(completion_at_point(Unwrap(od), config, point, trigger,
                                                disk))
                  ELSE None
           r == Begin("completion", uri, point, trigger)
       IN  req' =
             IF ~IsSome(res) THEN [r EXCEPT !.pc = "done"]
             ELSE IF Unwrap(res).tag = "Found"
             THEN [r EXCEPT !.pc = "done", !.first = res, !.result = Unwrap(res).val]
             ELSE [r EXCEPT !.pc = "loop", !.first = res,
                            !.queue = Unwrap(res).paths,
                            !.name = Unwrap(res).name,
                            !.queued = SeqRange(Unwrap(res).paths)]
    /\ last' = NoLast
    /\ nRequests' = nRequests + 1
    /\ locks' = Locking(locks.held, request_locks(req'.pc = "done"))
    /\ io_locked' = IF uri \in DOMAIN open_docs
                    THEN completion_at_point_io(open_docs[uri], config, point,
                                                trigger, disk)
                    ELSE {}
    /\ UNCHANGED <<disk, open_docs, symbols, config, poisoned, crashed, nEdits,
                   nRemovals>>

\* `while let Some(p) = queue.pop()` with the queue empty: the handler
\* returns what it has found
loop_end ==
    /\ ~crashed /\ req.pc = "loop" /\ req.queue = <<>>
    /\ req' = [req EXCEPT !.pc = "done", !.result = req.found]
    /\ locks' = Locking(locks.held, return_locks)
    /\ io_locked' = {}
    /\ UNCHANGED <<disk, open_docs, symbols, config, poisoned, crashed, last,
                   nEdits, nRequests, nRemovals>>

\* loop_pop with the imports of the popped file read in either case
loop_pop_always_read ==
    /\ ~crashed /\ req.pc = "loop" /\ req.queue # <<>>
    /\ LET url == UrlFromFilePath(Back(req.queue))
       IN  req' = [req EXCEPT
                     !.queue = Pop(req.queue),
                     !.cur = Some(url),
                     !.pc = IF ~exists(open_docs, url) THEN "open_path" ELSE "read"]
    /\ locks' = Locking(locks.held,
                       loop_pop_locks(req.kind, req'.pc = "open_path"))
    /\ io_locked' = {}
    /\ UNCHANGED <<disk, open_docs, symbols, config, poisoned, crashed, last,
                   nEdits, nRequests, nRemovals>>

\* the loop with a read_and_open that reads the file from the disk whether
\* or not the url is open
loop_pop_always_open ==
    /\ ~crashed /\ req.pc = "loop" /\ req.queue # <<>>
    /\ LET url == UrlFromFilePath(Back(req.queue))
       IN  req' = [req EXCEPT
                     !.queue = Pop(req.queue),
                     !.cur = Some(url),
                     !.pc = "open_path"]
    /\ locks' = Locking(locks.held,
                       loop_pop_locks(req.kind, req'.pc = "open_path"))
    /\ io_locked' = {}
    /\ UNCHANGED <<disk, open_docs, symbols, config, poisoned, crashed, last,
                   nEdits, nRequests, nRemovals>>

\* `while let Some(p) = queue.pop()`: the last path leaves the queue; then
\* the exists test of read_and_open (goto_definition) or of the loop body
\* (completion)
loop_pop ==
    /\ ~crashed /\ req.pc = "loop" /\ req.queue # <<>>
    /\ LET url == UrlFromFilePath(Back(req.queue))
       IN  req' = [req EXCEPT
                     !.queue = Pop(req.queue),
                     !.cur = Some(url),
                     !.pc = IF ~exists(open_docs, url) THEN "open_path"
                            ELSE IF req.kind = "goto_definition" THEN "read"
                            ELSE "update_symbols"]
    /\ locks' = Locking(locks.held,
                       loop_pop_locks(req.kind, req'.pc = "open_path"))
    /\ io_locked' = {}
    /\ UNCHANGED <<disk, open_docs, symbols, config, poisoned, crashed, last,
                   nEdits, nRequests, nRemovals>>

\* Backend::read_and_open, `self.open_path(uri.clone())`: the file is read
\* from the disk and, when that succeeds, opened
read_and_open_open_path ==
    /\ ~crashed /\ req.pc = "open_path"
    /\ open_docs' = open_path(open_docs, Unwrap(req.cur), disk)
    /\ req' = [req EXCEPT !.pc = "read_and_open_symbols"]
    /\ locks' = Locking(locks.held, open_path_locks(Unwrap(req.cur), disk))
    /\ io_locked' = IF disk[ToFilePath(Unwrap(req.cur))] # NoFile
                    THEN parse_whole_text_io ELSE {}
    /\ UNCHANGED <<disk, symbols, config, poisoned, crashed, last, nEdits,
                   nRequests, nRemovals>>

\* Backend::read_and_open, `self.update_symbols(&uri)`
read_and_open_update_symbols ==
    /\ ~crashed /\ req.pc = "read_and_open_symbols"
    /\ LET us == update_symbols(symbols, open_docs, Unwrap(req.cur))
       IN  /\ symbols' = us.symbols
           /\ IF us.panic
              THEN Panic({"symbols"}) /\ req' = [req EXCEPT !.pc = "panicked"]
              ELSE UNCHANGED <<crashed, poisoned>> /\ req' = [req EXCEPT !.pc = "read"]
    /\ locks' = IF crashed' THEN Unwound(update_symbols_locks(TRUE))
                ELSE Locking(locks.held, update_symbols_locks(FALSE))
    /\ io_locked' = {}
    /\ UNCHANGED <<disk, open_docs, config, last, nEdits, nRequests, nRemovals>>

\* extend_from_slice that leaves out the paths that were queued before
extend_from_slice_unvisited(r, paths) ==
    r.queue \o SelectSeq(paths, LAMBDA p : p \notin r.queued)

\* `queue.extend_from_slice(&paths)` on the queue of the request r
extend_from_slice(r, paths) == r.queue \o paths

\* `found = Some(loc)` that keeps the location recorded first
record_found_first(found, loc) == IF IsSome(found) THEN found ELSE Some(loc)

\* `Some(QueryResult::Found(loc)) => found = Some(loc)`
record_found(found, loc) == Some(loc)

\* Backend::read_and_open, `self.read_document(&uri, reader)`, with the
\* reader of goto_definition (find_component, then the match on its result)
goto_definition_read ==
    /\ ~crashed /\ req.kind = "goto_definition" /\ req.pc = "read"
    /\ LET url == Unwrap(req.cur)
           od == read_document(open_docs, url)
           res == IF IsSome(od)
                  THEN find_component(Unwrap(od), config, url, req.name, disk)
                  ELSE None
       IN  /\ IsSome(res) /\ Unwrap(res).tag = "ContinueSearch"
                  => Len(extend_from_slice(req, Unwrap(res).paths)) <= MaxQueue
           /\ req' =
                IF ~IsSome(res) THEN [req EXCEPT !.pc = "loop"]
                ELSE IF Unwrap(res).tag = "Found"
                THEN [req EXCEPT !.pc = "loop",
                                 !.found = record_found(@, Unwrap(Unwrap(res).val)),
                                 !.probed = @ \cup {ToFilePath(url)}]
                ELSE [req EXCEPT !.pc = "loop",
                                 !.queue = extend_from_slice(req, Unwrap(res).paths),
                                 !.queued = @ \cup SeqRange(Unwrap(res).paths),
                                 !.probed = @ \cup {ToFilePath(url)}]
    /\ locks' = Locking(locks.held, read_document_locks)
    /\ io_locked' = IF Unwrap(req.cur) \in DOMAIN open_docs
                    THEN find_component_io(open_docs[Unwrap(req.cur)], req.name)
                    ELSE {}
    /\ UNCHANGED <<disk, open_docs, symbols, config, poisoned, crashed, last,
                   nEdits, nRequests, nRemovals>>

\* Backend::read_and_open, `self.read_document(&uri, reader)`, with the
\* reader of completion (the imports of the file just loaded join the queue)
completion_read ==
    /\ ~crashed /\ req.kind = "completion" /\ req.pc = "read"
    /\ LET url == Unwrap(req.cur)
           od == read_document(open_docs, url)
           paths == IF IsSome(od) THEN resolved_imports(Unwrap(od), config, disk)
                    ELSE <<>>
       IN  /\ Len(req.queue) + Len(paths) <= MaxQueue
           /\ req' = [req EXCEPT !.pc = "update_symbols",
                                 !.queue = @ \o paths,
                                 !.queued = @ \cup SeqRange(paths)]
    /\ locks' = Locking(locks.held, read_document_locks)
    /\ io_locked' = IF Unwrap(req.cur) \in DOMAIN open_docs
                    THEN {"debug_log"}
                         \cup resolve_imports_io(raw_imports(open_docs[Unwrap(req.cur)]))
                    ELSE {}
    /\ UNCHANGED <<disk, open_docs, symbols, config, poisoned, crashed, last,
                   nEdits, nRequests, nRemovals>>

\* completion, `self.update_symbols(&url)` in the loop body
completion_update_symbols ==
    /\ ~crashed /\ req.kind = "completion" /\ req.pc = "update_symbols"
    /\ LET us == update_symbols(symbols, open_docs, Unwrap(req.cur))
       IN  /\ symbols' = us.symbols
           /\ IF us.panic
              THEN Panic({"symbols"}) /\ req' = [req EXCEPT !.pc = "panicked"]
              ELSE UNCHANGED <<crashed, poisoned>> /\ req' = [req EXCEPT !.pc = "lookup"]
    /\ locks' = IF crashed' THEN Unwound(update_symbols_locks(TRUE))
                ELSE Locking(locks.held, update_symbols_locks(FALSE))
    /\ io_locked' = {}
    /\ UNCHANGED <<disk, open_docs, config, last, nEdits, nRequests, nRemovals>>

\* completion, `if let Some(blah) = symbols.get(&url).and_then(get(&data))`:
\* the ports of the entry are the answer and the loop is left, or the loop
\* goes on
completion_lookup ==
    /\ ~crashed /\ req.kind = "completion" /\ req.pc = "lookup"
    /\ LET url == Unwrap(req.cur)
           hit == url \in DOMAIN symbols /\ req.name \in DOMAIN symbols[url]
       IN  req' =
             IF hit
             THEN [req EXCEPT !.pc = "done",
                              !.found = Some(PortItems(symbols[url][req.name])),
                              !.result = Some(PortItems(symbols[url][req.name])),
                              !.probed = @ \cup {ToFilePath(url)}]
             ELSE [req EXCEPT !.pc = "loop", !.probed = @ \cup {ToFilePath(url)}]
    /\ locks' = Locking(locks.held, completion_lookup_locks(req'.pc = "done"))
    /\ io_locked' = {}
    /\ UNCHANGED <<disk, open_docs, symbols, config, poisoned, crashed, last,
                   nEdits, nRequests, nRemovals>>

Next ==
    \/ \E uri \in ClientUrls, text \in Texts : did_open(uri, text)
    \/ \E uri \in ClientUrls, text \in Texts : did_change(uri, <<text>>)
    \/ \E settings \in Settings : did_change_configuration(settings)
    \/ \E p \in AllPaths : fs_remove(p)
    \/ \E uri \in ClientUrls, point \in Points : goto_definition(uri, point)
    \/ \E uri \in ClientUrls, point \in Points, trigger \in Triggers :
          completion(uri, point, trigger)
    \/ loop_end
    \/ loop_pop
    \/ read_and_open_open_path
    \/ read_and_open_update_symbols
    \/ goto_definition_read
    \/ completion_read
    \/ completion_update_symbols
    \/ completion_lookup

Spec == Init /\ [][Next]_vars

\* ------------------------------------------- the Document on its own
\* The queries of a Document (document.rs) are functions of the document,
\* the configuration, the disk and the point; DocumentSpec applies them to
\* one document of every text, under every configuration and disk layout.
DocTexts == Texts \cup {"tAll"}
DocPoints == 0..11
DocUrl == UrlFromFilePath(<<WorkDir, "m.futil">>)
DocConfigs ==
    {[library_paths |-> l] :
        l \in {<<>>, <<LibDir>>, <<LibDir, OptDir>>, <<OptDir, LibDir>>}}
\* the disks on which any of the files x.futil and z.futil exist
DocDisks ==
    {[p \in AllPaths |-> IF p \in S THEN "tFoo" ELSE NoFile] :
        S \in SUBSET (Dirs \X {"x.futil", "z.futil"})}

DocumentInit ==
    /\ disk \in DocDisks
    /\ config \in DocConfigs
    /\ \E doc \in {new_with_text(DocUrl, text) : text \in DocTexts}
                   \cup {DocumentNew(DocUrl)} :
          open_docs = MapPut(EmptyMap, DocUrl, doc)
    /\ symbols = EmptyMap
    /\ poisoned = {}
    /\ crashed = FALSE
    /\ req = IdleReq
    /\ last = NoLast
    /\ io_locked = {}
    /\ locks = NoLocks
    /\ nEdits = 0
    /\ nRequests = 0
    /\ nRemovals = 0

\* a query of the document: its answer is kept in req.first
Answer(kind, point, trigger, answer) ==
    [IdleReq EXCEPT !.kind = kind, !.pc = "done", !.url = DocUrl,
                    !.point = point, !.trigger = trigger, !.first = Some(answer)]

call_thing_at_point(point) ==
    /\ req' = Answer("thing_at_point", point, None,
                     thing_at_point(open_docs[DocUrl], point))
    /\ locks' = locks
    /\ io_locked' = io_locked
    /\ UNCHANGED <<disk, open_docs, symbols, config, poisoned, crashed, last,
                   nEdits, nRequests, nRemovals>>

call_context_at_point(point) ==
    /\ req' = Answer("context_at_point", point, None,
                     context_at_point(open_docs[DocUrl], point))
    /\ locks' = locks
    /\ io_locked' = io_locked
    /\ UNCHANGED <<disk, open_docs, symbols, config, poisoned, crashed, last,
                   nEdits, nRequests, nRemovals>>

call_completion_at_point(point, trigger) ==
    /\ req' = Answer("completion_at_point", point, trigger,
                     completion_at_point(open_docs[DocUrl], config, point, trigger,
                                         disk))
    /\ locks' = locks
    /\ io_locked' = io_locked
    /\ UNCHANGED <<disk, open_docs, symbols, config, poisoned, crashed, last,
                   nEdits, nRequests, nRemovals>>

call_resolved_imports ==
    /\ req' = Answer("resolved_imports", 0, None,
                     resolved_imports(open_docs[DocUrl], config, disk))
    /\ locks' = locks
    /\ io_locked' = io_locked
    /\ UNCHANGED <<disk, open_docs, symbols, config, poisoned, crashed, last,
                   nEdits, nRequests, nRemovals>>

\* the names asked of find_component: declared ones and one that no text has
DocNames == {"Foo", "Bar", "main", "Baz"}

call_find_component(name) ==
    /\ req' = [Answer("find_component", 0, None,
                      find_component(open_docs[DocUrl], config, DocUrl, name,
                                     disk))
                  EXCEPT !.name = name]
    /\ locks' = locks
    /\ io_locked' = io_locked
    /\ UNCHANGED <<disk, open_docs, symbols, config, poisoned, crashed, last,
                   nEdits, nRequests, nRemovals>>

\* the import strings asked of find_import
DocImports == {"x.futil", "z.futil"}

call_find_import(name) ==
    /\ req' = [Answer("find_import", 0, None,
                      find_import(open_docs[DocUrl], config, DocUrl, name, disk))
                  EXCEPT !.name = name]
    /\ locks' = locks
    /\ io_locked' = io_locked
    /\ UNCHANGED <<disk, open_docs, symbols, config, poisoned, crashed, last,
                   nEdits, nRequests, nRemovals>>

DocumentNext ==
    \/ \E point \in DocPoints : call_thing_at_point(point)
    \/ \E point \in DocPoints : call_context_at_point(point)
    \/ \E point \in DocPoints, trigger \in Triggers :
          call_completion_at_point(point, trigger)
    \/ call_resolved_imports
    \/ \E name \in DocNames : call_find_component(name)
    \/ \E name \in DocImports : call_find_import(name)

DocumentSpec == DocumentInit /\ [][DocumentNext]_vars

\* ------------------------------------------------------------ properties
\* a component or primitive called name is declared in the document
Declares(doc, name) ==
    \E i \in DOMAIN RootDecls(doc) :
        /\ RootDecls(doc)[i].kind \in {"component", "primitive"}
        /\ RootDecls(doc)[i].name = name
\* the location of the first such declaration
DeclarationIn(p, name) ==
    LET doc == open_docs[UrlFromFilePath(p)]
    IN  Location(UrlFromFilePath(p), "component",
                 MinOf({i \in DOMAIN RootDecls(doc) : RootDecls(doc)[i].name = name}))
Loaded(p) == UrlFromFilePath(p) \in DOMAIN open_docs
DeclaredIn(p, name) == Loaded(p) /\ Declares(open_docs[UrlFromFilePath(p)], name)
\* an import of the document, under its directory or a library path, is the
\* existing file p
ImportsFile(doc, p) ==
    \E i \in DOMAIN raw_imports(doc) :
        \E root \in {Parent(ToFilePath(doc.url))} \cup SeqRange(config.library_paths) :
            p = Join(root, raw_imports(doc)[i]) /\ disk[p] # NoFile

\* a goto_definition request on a Component reference that the current file
\* does not declare has returned
GotoSearchDone ==
    /\ req.kind = "goto_definition" /\ req.pc = "done"
    /\ IsSome(req.first) /\ Unwrap(req.first).tag = "ContinueSearch"

C1_Begins ==
    \A X \in AllPaths :
        (/\ nRequests' = nRequests + 1 /\ req'.kind = "goto_definition"
         /\ req'.url \in DOMAIN open_docs
         /\ LET doc == open_docs[req'.url]
                thing == thing_at_point(doc, req'.point)
            IN  /\ IsSome(thing) /\ Unwrap(thing).tag = "Component"
                /\ ~Declares(doc, Unwrap(thing).name)
                /\ ImportsFile(doc, X))
        => /\ req'.pc = "loop"
           /\ Unwrap(req'.first).tag = "ContinueSearch"
           /\ X \in SeqRange(req'.queue)
           /\ req'.name = Unwrap(thing_at_point(open_docs[req'.url], req'.point)).name

\* C1, second half: when the loop returns, it returns Found at the
\* declaration of Foo in a queued file that declares it, and in X when X is
\* the only queued file that declares it.
C1_Returns ==
    \A X \in AllPaths :
        (/\ GotoSearchDone
         /\ X \in SeqRange(Unwrap(req.first).paths)
         /\ DeclaredIn(X, req.name))
        => /\ \E Z \in req.queued :
                 /\ DeclaredIn(Z, req.name)
                 /\ req.result = Some(DeclarationIn(Z, req.name))
           /\ (\A Z \in req.queued : DeclaredIn(Z, req.name) => Z = X)
                 => req.result = Some(DeclarationIn(X, req.name))

C2_SymbolsRebuilt ==
    (last.op = "did_change" /\ ~crashed)
    => /\ last.url \in DOMAIN symbols
       /\ symbols[last.url] =
            CollectMap(signatures(new_with_text(last.url, last.text)))

\* the path popped from the frontier could not be read: open_path has run
\* and the document is still not in the table
PoppedUnreadable ==
    /\ req.pc \in {"read_and_open_symbols", "panicked"}
    /\ ~exists(open_docs, Unwrap(req.cur))

\* C3 as stated: a popped path that cannot be read is skipped; the request
\* does not fail and the locks of the shared state stay usable.
C3_UnreadableSkipped == PoppedUnreadable => ~crashed /\ poisoned = {}

\* C4 as stated: settings that fail to deserialize do not make
\* did_change_configuration fail, and the stored Config stays as it was.
C4_LastGoodConfig ==
    [][(/\ last'.op = "did_change_configuration" /\ nEdits' = nEdits + 1
        /\ ~IsSome(from_value(last'.settings)))
       => ~crashed' /\ config' = config]_vars

\* the Thing has a definition in the current file or, for a component, in a
\* file the frontier reached; for an import, a candidate file exists
ThingDefined(doc, thing) ==
    LET node == thing.node
        comp == RootDecls(doc)[Unwrap(node.comp)]
    IN  CASE thing.tag = "Cell" ->
                IsSome(node.comp) /\ \E i \in DOMAIN comp.cells : comp.cells[i][1] = thing.name
          [] thing.tag = "SelfPort" ->
                IsSome(node.comp)
                /\ thing.name \in SeqRange(comp.inputs) \cup SeqRange(comp.outputs)
          [] thing.tag = "Group" ->
                IsSome(node.comp) /\ thing.name \in SeqRange(comp.groups)
          [] thing.tag = "Import" ->
                \E root \in {Parent(ToFilePath(doc.url))} \cup SeqRange(config.library_paths) :
                    disk[Join(root, thing.name)] # NoFile
          [] thing.tag = "Component" ->
                Declares(doc, thing.name)
                \/ \E p \in req.queued : DeclaredIn(p, thing.name)

\* a goto_definition request has returned for a Thing that is defined nowhere
GotoUnresolved ==
    /\ req.kind = "goto_definition" /\ req.pc = "done"
    /\ req.url \in DOMAIN open_docs
    /\ LET doc == open_docs[req.url]
           thing == thing_at_point(doc, req.point)
       IN  IsSome(thing) /\ ~ThingDefined(doc, Unwrap(thing))

\* C5: a Thing defined neither in the current file nor in any file the
\* frontier reached makes goto_definition return Ok(None) once the frontier
\* is empty.
C5_UnresolvedIsNone == GotoUnresolved => ~crashed /\ req.result = None

C5_Witness ==
    /\ GotoUnresolved /\ req.result = None
    /\ req.queued # {} /\ req.probed = req.queued

\* C6: every Document of the open-document table has the tree of its stored
\* text and the Component Table derived from that tree.
C6_DocumentConsistent ==
    \A u \in DOMAIN open_docs :
        LET doc == open_docs[u]
            decls == Parse(doc.text).decls
            comps == {i \in DOMAIN decls : decls[i].kind = "component"}
        IN  /\ doc.url = u
            /\ doc.tree = Some(Parse(doc.text))
            /\ DOMAIN doc.components = {decls[i].name : i \in comps}
            /\ \A i \in comps :
                  (\A j \in comps : decls[j].name = decls[i].name => j <= i)
                  => doc.components[decls[i].name] = PrivateComponentInfo(decls[i])

C6_Witness ==
    /\ last.op = "did_change" /\ ~last.again /\ last.url \in DOMAIN open_docs
    /\ open_docs[last.url].text = last.text
    /\ DOMAIN open_docs[last.url].components # {}

\* C7: a full-text change that repeats the change before it leaves the
\* Component Table of the document as the first one made it.
C7_IdempotentReparse ==
    [][(/\ last'.op = "did_change" /\ last'.again /\ nEdits' = nEdits + 1
        /\ last'.url \in DOMAIN open_docs)
       => open_docs'[last'.url].components = open_docs[last'.url].components]_vars

C7_Witness ==
    /\ last.op = "did_change" /\ last.again /\ last.url \in DOMAIN open_docs
    /\ DOMAIN open_docs[last.url].components # {}

\* C8 as stated: a popped path that yields nothing never ends the loop, so a
\* goto_definition search that ends without a result has probed every path
\* that was ever queued, and none of them declares the component.
C8_FrontierExhausted ==
    (/\ req.kind = "goto_definition" /\ req.pc \in {"done", "panicked"}
     /\ IsSome(req.first) /\ Unwrap(req.first).tag = "ContinueSearch"
     /\ req.result = None)
    => /\ req.queue = <<>>
       /\ req.queued \subseteq req.probed
       /\ \A p \in req.queued : ~DeclaredIn(p, req.name)

\* the completion request was made right after `cell.` in a group or the
\* wiring section, and the cell instantiates a component or primitive called c
DotCompletionOf(c) ==
    /\ req.kind = "completion" /\ req.pc # "idle" /\ req.trigger = Some(".")
    /\ req.url \in DOMAIN open_docs
    /\ LET doc == open_docs[req.url]
           on == node_at_point(doc, req.point)
           node == Unwrap(on)
           comp == RootDecls(doc)[Unwrap(node.comp)]
       IN  /\ IsSome(on) /\ IsSome(node.comp) /\ IsSome(node.word)
           /\ {"group", "wires"} \cap node.regions # {}
           /\ "cells" \notin node.regions
           /\ \E i \in DOMAIN comp.cells :
                 comp.cells[i] = <<Unwrap(node.word), c>>

\* C9 as stated: when the instantiated component or primitive is declared in
\* the same file, completion_at_point returns Found with exactly its input
\* ports tagged input and its output ports tagged output.
C9_LocalPorts ==
    \A c \in {"Foo", "Bar", "main"} :
        (DotCompletionOf(c) /\ Declares(open_docs[req.url], c))
        => /\ Unwrap(req.first).tag = "Found"
           /\ \E i \in DOMAIN RootDecls(open_docs[req.url]) :
                 LET d == RootDecls(open_docs[req.url])[i]
                 IN  /\ d.name = c
                     /\ SeqRange(Unwrap(Unwrap(req.first).val)) =
                          {<<q, "input">> : q \in SeqRange(d.inputs)}
                          \cup {<<q, "output">> : q \in SeqRange(d.outputs)}

\* the document of a path: the one in the table, else the file on the disk
DocumentAt(p) ==
    IF Loaded(p) THEN Some(open_docs[UrlFromFilePath(p)])
    ELSE IF disk[p] # NoFile THEN Some(new_with_text(UrlFromFilePath(p), disk[p]))
    ELSE None
\* the import edges: from a file to each of its resolved imports
ImportEdges ==
    UNION {IF IsSome(DocumentAt(p))
           THEN {<<p, q>> : q \in SeqRange(resolved_imports(Unwrap(DocumentAt(p)),
                                                            config, disk))}
           ELSE {} : p \in AllPaths}

\* the files reached from the files of S along the edges E
RECURSIVE Closure(_, _)
Closure(S, E) ==
    LET T == S \cup {e[2] : e \in {x \in E : x[1] \in S}}
    IN  IF T = S THEN S ELSE Closure(T, E)
\* the files reachable from the paths through the import graph
Reachable(paths) == Closure(paths, ImportEdges)

\* C10 as stated: for a component that the current file does not declare,
\* completion_at_point returns ContinueSearch on its name over the resolved
\* imports, and the frontier returns its ports whenever a file reachable
\* through the import graph declares it, whichever files are already open.
C10_RemotePorts ==
    \A c \in {"Foo", "Bar", "main"} :
        (/\ DotCompletionOf(c) /\ req.pc = "done"
         /\ c \notin DOMAIN open_docs[req.url].components)
        => /\ Unwrap(req.first).tag = "ContinueSearch"
           /\ req.name = c
           /\ \A p \in Reachable(SeqRange(Unwrap(req.first).paths)) :
                 (IsSome(DocumentAt(p)) /\ Declares(Unwrap(DocumentAt(p)), c))
                 => \E q \in Reachable(SeqRange(Unwrap(req.first).paths)) :
                       /\ IsSome(DocumentAt(q))
                       /\ \E i \in DOMAIN RootDecls(Unwrap(DocumentAt(q))) :
                             LET d == RootDecls(Unwrap(DocumentAt(q)))[i]
                             IN  /\ d.name = c
                                 /\ req.result = Some(PortItems(ComponentSig(d)))

\* the completion request on the document was made at a point whose Context
\* is Cells
CellsCompletion ==
    /\ req.kind = "completion_at_point"
    /\ context_at_point(open_docs[DocUrl], req.point) = "Cells"

\* C11 as stated: at every point whose Context is Cells, completion_at_point
\* returns Found with one entry tagged component for every component and
\* every primitive declared in the file.
C11_CellListCompletion ==
    CellsCompletion
    => LET doc == open_docs[DocUrl]
           res == Unwrap(req.first)
           names == {RootDecls(doc)[i].name : i \in DOMAIN RootDecls(doc)}
       IN  /\ res.tag = "Found"
           /\ SeqRange(Unwrap(res.val)) = {<<n, "component">> : n \in names}
           /\ Len(Unwrap(res.val)) = Cardinality(names)

\* the candidates of one import: under the directory of the file, then under
\* each library path in configuration order; the ones that exist are kept
ExistingCandidates(doc, import) ==
    LET libs == config.library_paths
        cand == [r \in 1..(1 + Len(libs)) |->
                    IF r = 1 THEN Join(Parent(ToFilePath(doc.url)), import)
                    ELSE Join(libs[r - 1], import)]
    IN  SelectSeq(cand, LAMBDA p : disk[p] # NoFile)
RECURSIVE ImportsInOrder(_, _)
ImportsInOrder(doc, imports) ==
    IF imports = <<>> THEN <<>>
    ELSE ExistingCandidates(doc, Head(imports)) \o ImportsInOrder(doc, Tail(imports))

\* C12: resolved_imports yields, import by import in document order, the
\* candidate under the directory of the file and then the candidates under
\* the library paths in configuration order, keeping the existing paths only.
C12_ResolutionOrder ==
    req.kind = "resolved_imports"
    => Unwrap(req.first) =
         ImportsInOrder(open_docs[DocUrl], raw_imports(open_docs[DocUrl]))

C12_Witness ==
    /\ req.kind = "resolved_imports"
    /\ Len(raw_imports(open_docs[DocUrl])) = 2
    /\ Len(config.library_paths) = 2
    /\ Unwrap(req.first) =
         << <<WorkDir, "x.futil">>, <<OptDir, "x.futil">>,
            <<OptDir, "z.futil">>, <<LibDir, "z.futil">> >>

\* thing_at_point was asked about a point whose node has a parent of kind port
PortReference ==
    /\ req.kind = "thing_at_point"
    /\ IsSome(node_at_point(open_docs[DocUrl], req.point))
    /\ Unwrap(node_at_point(open_docs[DocUrl], req.point)).parent = "port"

\* C13: under a port, thing_at_point returns Cell(node, text) when the node
\* has a following sibling, else SelfPort(node, text) when it has no
\* preceding sibling, else nothing; the following sibling decides first.
C13_PortClassification ==
    PortReference
    => LET node == Unwrap(node_at_point(open_docs[DocUrl], req.point))
           thing == Unwrap(req.first)
       IN  /\ node.next
                => thing = Some([tag |-> "Cell", node |-> node, name |-> node.text])
           /\ (~node.next /\ ~node.prev)
                => thing = Some([tag |-> "SelfPort", node |-> node, name |-> node.text])
           /\ (~node.next /\ node.prev) => thing = None

\* a node with a following and no preceding sibling was classified as a Cell
C13_Witness ==
    /\ PortReference
    /\ LET node == Unwrap(node_at_point(open_docs[DocUrl], req.point))
       IN  node.next /\ ~node.prev
    /\ IsSome(Unwrap(req.first)) /\ Unwrap(Unwrap(req.first)).tag = "Cell"

\* the six values of Context
Context == {"Toplevel", "Component", "Cells", "Group", "Wires", "Control"}

\* C14: context_at_point answers every point, inside the text or not, with
\* one of the six Context values, and with Toplevel when the document has no
\* tree, no node covers the point or the node has no enclosing component.
C14_ClassifierTotal ==
    req.kind = "context_at_point"
    => LET doc == open_docs[DocUrl]
           on == node_at_point(doc, req.point)
       IN  /\ Unwrap(req.first) \in Context
           /\ (~IsSome(doc.tree) \/ ~IsSome(on) \/ ~IsSome(Unwrap(on).comp))
                => Unwrap(req.first) = "Toplevel"

\* a document without a tree was asked and the answer was Toplevel
C14_Witness ==
    /\ req.kind = "context_at_point"
    /\ ~IsSome(open_docs[DocUrl].tree)
    /\ req.first = Some("Toplevel")

\* C15 as stated: no step of a handler performs a file-system operation
\* (reading a file, testing that a path exists, writing the debug files)
\* while it holds a guard of the open-document table.
C15_NoIoUnderLock == io_locked = {}

\* the import edges the search for name follows: from a file that does not
\* declare name to each of its resolved imports
SearchEdges(name) ==
    UNION {IF IsSome(DocumentAt(p)) /\ ~Declares(Unwrap(DocumentAt(p)), name)
           THEN {<<p, q>> : q \in SeqRange(resolved_imports(Unwrap(DocumentAt(p)),
                                                            config, disk))}
           ELSE {} : p \in AllPaths}
\* a file the search reaches from the paths imports, directly or through
\* other files, itself
SearchCycle(paths, name) ==
    LET E == SearchEdges(name)
    IN  \E p \in Closure(paths, E) :
            p \in Closure({e[2] : e \in {x \in E : x[1] = p}}, E)

\* a goto_definition search over the imports is at the test of its loop or
\* has returned
GotoSearching ==
    /\ req.kind = "goto_definition" /\ req.pc \in {"loop", "done"}
    /\ IsSome(req.first) /\ Unwrap(req.first).tag = "ContinueSearch"

\* C16: while the files the goto_definition search reaches from its queue
\* import each other in a cycle and do not declare the component, the queue
\* is not empty at the test of the loop and the request has not returned.
C16_CycleNeverReturns ==
    (GotoSearching /\ SearchCycle(SeqRange(Unwrap(req.first).paths), req.name))
    => req.pc = "loop" /\ req.queue # <<>>

\* the search is about to probe, once more, a file A it has probed before,
\* A importing B and B importing A
C16_Witness ==
    /\ req.kind = "goto_definition" /\ req.pc = "read"
    /\ SearchCycle(SeqRange(Unwrap(req.first).paths), req.name)
    /\ ToFilePath(Unwrap(req.cur)) \in req.probed
    /\ \E B \in AllPaths \ {ToFilePath(Unwrap(req.cur))} :
          /\ <<ToFilePath(Unwrap(req.cur)), B>> \in SearchEdges(req.name)
          /\ <<B, ToFilePath(Unwrap(req.cur))>> \in SearchEdges(req.name)

\* the next step of the handler that is running
HandlerStep ==
    \/ loop_end \/ loop_pop \/ read_and_open_open_path
    \/ read_and_open_update_symbols \/ goto_definition_read \/ completion_read
    \/ completion_update_symbols \/ completion_lookup

\* a goto_definition search over the imports has begun and has not returned
GotoSearchUnderway ==
    /\ req.kind = "goto_definition" /\ req.pc \notin {"idle", "done"}
    /\ IsSome(req.first) /\ Unwrap(req.first).tag = "ContinueSearch"

\* a search over an acyclic import graph that has returned has emptied its
\* queue and returns Found exactly when a probed file declares the component
AcyclicSearchResult ==
    (GotoSearchDone /\ ~SearchCycle(SeqRange(Unwrap(req.first).paths), req.name))
    => /\ req.queue = <<>>
       /\ IsSome(req.result) <=> \E p \in req.probed : DeclaredIn(p, req.name)

\* C17 as stated: on an acyclic import graph the goto_definition loop goes on
\* until its queue is empty and returns (nothing ends it before that), with
\* Found if a probed file declares the component and with nothing otherwise.
C17_AcyclicReturns ==
    /\ (GotoSearchUnderway
         /\ ~SearchCycle(SeqRange(Unwrap(req.first).paths), req.name))
       => ~crashed /\ ENABLED HandlerStep
    /\ AcyclicSearchResult

\* a completion search over the imports has begun and has not returned
CompletionUnderway ==
    /\ req.kind = "completion" /\ req.pc \notin {"idle", "done"}

\* the file popped by the completion loop has been loaded by read_and_open
\* and its imports are still to be appended
ImportsPending ==
    /\ req.pc \in {"read_and_open_symbols", "read"}
    /\ Unwrap(req.cur) \in DOMAIN open_docs

\* the position of the handler inside one turn of the loop
PcRank ==
    CASE req.pc = "open_path" -> 5
      [] req.pc = "read_and_open_symbols" -> 4
      [] req.pc = "read" -> 3
      [] req.pc = "update_symbols" -> 2
      [] req.pc = "lookup" -> 1
      [] OTHER -> 0

\* what is left to do: the files not yet in the table (and the loaded file
\* whose imports are pending) first, then the length of the queue, then the
\* position in the turn
Variant ==
    ((Cardinality(Urls \ DOMAIN open_docs) + (IF ImportsPending THEN 1 ELSE 0))
        * (MaxQueue + 1) + Len(req.queue)) * 6 + PcRank

\* every step of a completion search makes the variant smaller, or ends the
\* handler by its return or by a panic
VariantDecreases ==
    (CompletionUnderway /\ req' # req)
    => \/ crashed'
       \/ req'.pc = "done"
       \/ Variant' < Variant

\* imports are appended only for a file that the loop has just inserted
\* into the table, and no file ever leaves the table
EnqueuedOnce ==
    /\ (CompletionUnderway /\ req'.queue # req.queue /\ req.pc # "loop")
          => req.pc = "read" /\ ImportsPending
    /\ (CompletionUnderway' /\ req'.pc = "open_path")
          => Unwrap(req'.cur) \notin DOMAIN open_docs
    /\ DOMAIN open_docs \subseteq DOMAIN open_docs'

\* C18: the completion loop stops on every import graph, cyclic or not: its
\* steps decrease a variant (a file's imports are appended only when the loop
\* has just inserted the file into the table, from which nothing is removed),
\* and an unfinished search always has a next step unless a panic ended it.
C18_CompletionTerminates ==
    /\ [][VariantDecreases /\ EnqueuedOnce]_vars
    /\ []((CompletionUnderway /\ ~crashed) => ENABLED HandlerStep)

\* a completion search has returned nothing after probing two files that
\* import each other
C18_Witness ==
    /\ req.kind = "completion" /\ req.pc = "done"
    /\ IsSome(req.first) /\ Unwrap(req.first).tag = "ContinueSearch"
    /\ req.result = None
    /\ \E A \in req.probed, B \in req.probed :
          A # B /\ <<A, B>> \in ImportEdges /\ <<B, A>> \in ImportEdges

\* a step of a goto_definition search that pops a path or extends the queue
\* keeps the queue a stack: the popped path is the one appended last and the
\* paths appended by a ContinueSearch go on top of the ones queued before
StackDiscipline ==
    /\ (GotoSearchUnderway /\ req.pc = "loop" /\ req'.pc # "loop" /\ req.queue # <<>>)
          => /\ req'.cur = Some(UrlFromFilePath(req.queue[Len(req.queue)]))
             /\ req'.queue = SubSeq(req.queue, 1, Len(req.queue) - 1)
    /\ (GotoSearchUnderway /\ req.pc = "read" /\ req'.pc = "loop")
          => /\ Len(req'.queue) >= Len(req.queue)
             /\ SubSeq(req'.queue, 1, Len(req.queue)) = req.queue
             /\ LET od == read_document(open_docs, Unwrap(req.cur))
                    res == find_component(Unwrap(od), config, Unwrap(req.cur),
                                          req.name, disk)
                IN  (IsSome(od) /\ Unwrap(res).tag = "ContinueSearch")
                    => SubSeq(req'.queue, Len(req.queue) + 1, Len(req'.queue))
                         = Unwrap(res).paths

\* the first path probed is the last of the initial candidates
LastCandidateFirst ==
    (GotoSearchUnderway /\ req.pc # "loop" /\ req.probed = {}
     /\ req.queue = Pop(Unwrap(req.first).paths))
    => req.cur = Some(UrlFromFilePath(
                        Unwrap(req.first).paths[Len(Unwrap(req.first).paths)]))

\* C19: the goto_definition loop always pops the path appended last, the
\* paths of a ContinueSearch are put on top of the paths queued earlier (and
\* so are probed before them), and the last of the initial candidates is
\* probed first.
C19_LastInFirstOut == [][StackDiscipline]_vars /\ []LastCandidateFirst

\* with an initial candidate still waiting in the queue, the search probes
\* a path that a ContinueSearch of an imported file appended
C19_Witness ==
    /\ GotoSearchUnderway /\ req.pc = "read"
    /\ ToFilePath(Unwrap(req.cur)) \notin SeqRange(Unwrap(req.first).paths)
    /\ req.queue # <<>>
    /\ req.queue[1] = Unwrap(req.first).paths[1]
    /\ req.queue[1] \notin req.probed

\* the goto_definition search is reading a probed file that declares the
\* component
ProbeFinds ==
    /\ GotoSearchUnderway /\ req.pc = "read"
    /\ DeclaredIn(ToFilePath(Unwrap(req.cur)), req.name)

\* a Found does not end the loop: the location of the file just probed
\* replaces the recorded one and the queue is left as it is
FoundOverwrites ==
    (ProbeFinds /\ req' # req)
    => /\ req'.pc = "loop"
       /\ req'.queue = req.queue
       /\ req'.found = Some(DeclarationIn(ToFilePath(Unwrap(req.cur)), req.name))

\* the search returns what is recorded, with its queue empty; when both of
\* two initial candidates declare the component, that is the declaration of
\* the first candidate, which is probed last
LastFoundReturned ==
    GotoSearchDone
    => /\ req.queue = <<>>
       /\ req.result = req.found
       /\ LET paths == Unwrap(req.first).paths
          IN  (Len(paths) = 2 /\ paths[1] # paths[2]
               /\ \A i \in 1..2 : DeclaredIn(paths[i], req.name))
              => req.result = Some(DeclarationIn(paths[1], req.name))

\* C20: the goto_definition loop does not stop at the first Found: it pops
\* until the queue is empty, every later Found replaces the recorded
\* location, and the location returned is the one of the declaring file
\* probed last.
C20_LastFoundWins == [][FoundOverwrites]_vars /\ []LastFoundReturned

\* both initial candidates declare the component and the search has returned
\* the declaration of the one probed last
C20_Witness ==
    /\ GotoSearchDone
    /\ LET paths == Unwrap(req.first).paths
       IN  /\ Len(paths) = 2 /\ paths[1] # paths[2]
           /\ \A i \in 1..2 : DeclaredIn(paths[i], req.name)
           /\ req.probed = {paths[1], paths[2]}
           /\ req.result = Some(DeclarationIn(paths[1], req.name))
           /\ req.result # Some(DeclarationIn(paths[2], req.name))
\* C21: find_component always answers: Found at the first declaration of the
\* name when the document declares a component or a primitive of that name,
\* and otherwise ContinueSearch with the same name and, in order, every
\* existing candidate of every import of the document (no path when no
\* import resolves).
DeclaredAt(doc, name) ==
    {i \in DOMAIN RootDecls(doc) :
        /\ RootDecls(doc)[i].kind \in {"component", "primitive"}
        /\ RootDecls(doc)[i].name = name}
C21_FindComponentTotal ==
    req.kind = "find_component" =>
        LET doc == open_docs[DocUrl]
            answer == req.first
            at == DeclaredAt(doc, req.name)
        IN  /\ IsSome(answer)
            /\ IsSome(Unwrap(answer))
            /\ at # {} =>
                  Unwrap(Unwrap(answer)) =
                      Found(Location(DocUrl, "component", MinOf(at)))
            /\ at = {} =>
                  Unwrap(Unwrap(answer)) =
                      ContinueSearch(ImportsInOrder(doc, raw_imports(doc)),
                                     req.name)
\* a primitive is found
C21_Witness ==
    /\ req.kind = "find_component"
    /\ LET doc == open_docs[DocUrl]
           answer == Unwrap(Unwrap(req.first))
       IN  /\ answer.tag = "Found"
           /\ \E i \in DeclaredAt(doc, req.name) :
                 RootDecls(doc)[i].kind = "primitive"

\* C22: a goto_definition request on a Cell, SelfPort or Group reference is
\* answered from the enclosing component of the current file: the first
\* lookup gives Found or nothing and never ContinueSearch, the request is
\* over after that lookup, no path is queued or probed, and the
\* open-document table and the symbol cache are left as they were.
LocalReference(uri, point) ==
    LET od == read_document(open_docs, uri)
        thing == IF IsSome(od) THEN thing_at_point(Unwrap(od), point) ELSE None
    IN  /\ IsSome(thing)
        /\ Unwrap(thing).tag \in {"Cell", "SelfPort", "Group"}
LocalRequestStarts ==
    /\ req'.kind = "goto_definition"
    /\ nRequests' = nRequests + 1
    /\ LocalReference(req'.url, req'.point)
LocalAnswer(r) ==
    /\ r.pc = "done"
    /\ r.queue = <<>> /\ r.queued = {} /\ r.probed = {}
    /\ \/ r.first = None /\ r.result = None
       \/ /\ IsSome(r.first)
          /\ Unwrap(r.first).tag = "Found"
          /\ Unwrap(Unwrap(r.first).val).url = r.url
          /\ r.result = Unwrap(r.first).val
C22_LocalReferences ==
    /\ [][LocalRequestStarts =>
             /\ LocalAnswer(req')
             /\ open_docs' = open_docs
             /\ symbols' = symbols]_vars
    /\ [](req.kind = "goto_definition" /\ LocalReference(req.url, req.point)
             => LocalAnswer(req))
\* requests on a group, on a port of the component and on an undeclared cell
\* have been answered
C22_Witness ==
    /\ req.kind = "goto_definition"
    /\ LocalReference(req.url, req.point)
    /\ thing_at_point(open_docs[req.url], req.point) =
          Some(Thing("Group", PtEnable(2), "g"))
    /\ IsSome(req.result)
    /\ Unwrap(req.result).range = <<"group", 1>>
C22_WitnessNothing ==
    /\ req.kind = "goto_definition"
    /\ LocalReference(req.url, req.point)
    /\ req.first = None

\* C23: find_import answers Found, with the start-of-file range, in the first
\* existing candidate of the import (the directory of the current file
\* before the library paths in their order), nothing when no candidate
\* exists, and never ContinueSearch.
C23_ImportResolution ==
    req.kind = "find_import" =>
        LET doc == open_docs[DocUrl]
            cands == ExistingCandidates(doc, req.name)
            answer == Unwrap(req.first)
        IN  IF cands = <<>> THEN answer = None
            ELSE /\ IsSome(answer)
                 /\ Unwrap(answer) =
                       Found([url |-> UrlFromFilePath(cands[1]),
                              range |-> RangeZero])

\* C24: context_at_point answers with the first region, in the order cell
\* list, group, wiring section, control, component, that contains the
\* point: a point inside a group is Group and not Wires, a point of the
\* component outside its sections is Component, and a point outside the
\* range of the component is Toplevel.
Precedence ==
    << <<"cells", "Cells">>, <<"group", "Group">>, <<"wires", "Wires">>,
       <<"control", "Control">>, <<"component", "Component">> >>
Classified(regions) ==
    LET hits == {i \in DOMAIN Precedence : Precedence[i][1] \in regions}
    IN  IF hits = {} THEN "Toplevel" ELSE Precedence[MinOf(hits)][2]
C24_ContextPrecedence ==
    req.kind = "context_at_point" =>
        LET on == node_at_point(open_docs[DocUrl], req.point)
            regions == Unwrap(on).regions
            answer == Unwrap(req.first)
        IN  (IsSome(on) /\ IsSome(Unwrap(on).comp)) =>
                /\ answer = Classified(regions)
                /\ "group" \in regions => answer = "Group"
                /\ regions = {"component"} => answer = "Component"
                /\ "component" \notin regions => answer = "Toplevel"
\* a point inside a group, which lies in the wiring section, was asked
C24_Witness ==
    /\ req.kind = "context_at_point"
    /\ LET on == node_at_point(open_docs[DocUrl], req.point)
       IN  /\ IsSome(on)
           /\ {"group", "wires"} \subseteq Unwrap(on).regions
    /\ req.first = Some("Group")

\* C25: a step of a request never replaces a Document that is open: the
\* table changes in a request only by read_and_open adding, for a url that
\* was absent, the Document of the file on the disk; every Document that
\* was in the table, with the text the client supplied, is left as it was.
RequestStep == req'.kind \in {"goto_definition", "completion"} /\ nEdits' = nEdits
C26_UnopenedChangeNoOp ==
    [][(/\ last'.op = "did_change"
        /\ nEdits' = nEdits + 1
        /\ last'.url \notin DOMAIN open_docs)
       => /\ open_docs' = open_docs
          /\ symbols' = symbols
          /\ crashed' = crashed
          /\ poisoned' = poisoned]_vars

\* C27: the handlers request the three locks in the order config, symbols,
\* open_docs and never request a lock they hold: every acquisition of a step
\* is for a lock that comes after every lock the handler holds at that
\* moment, so no handler waits for a guard of its own and no two handlers
\* can wait for each other; between the steps of a request only the read
\* guard of config is held, and none when no handler is running.
Rank(lock) ==
    CASE lock = "config" -> 1 [] lock = "symbols" -> 2 [] lock = "open_docs" -> 3
Grantable(held, e) ==
    /\ e.mode = "write" => \A h \in held : h[1] # e.lock
    /\ e.mode = "read" => <<e.lock, "write">> \notin held
InOrder(held, e) == \A h \in held : Rank(h[1]) < Rank(e.lock)
RECURSIVE Orderly(_, _)
Orderly(held, trace) ==
    IF trace = <<>> THEN TRUE
    ELSE LET e == Head(trace)
         IN  IF e.op = "acquire"
             THEN /\ Grantable(held, e)
                  /\ InOrder(held, e)
                  /\ Orderly(held \cup {<<e.lock, e.mode>>}, Tail(trace))
             ELSE /\ <<e.lock, e.mode>> \in held
                  /\ Orderly(held \ {<<e.lock, e.mode>>}, Tail(trace))
C27_DeadlockFree ==
    /\ [][Orderly(locks.held, locks'.trace)]_vars
    /\ [](/\ locks.held \subseteq {<<"config", "read">>}
          /\ req.pc \in {"idle", "done", "panicked"} => locks.held = {})
\* update_symbols has run inside a request: the write guard of symbols and
\* then the read guard of open_docs were taken under the read guard of config
C27_Witness ==
    /\ req.pc \in {"read", "lookup"}
    /\ locks.held = {<<"config", "read">>}
    /\ locks.trace = update_symbols_locks(FALSE)

\* C28: from its first lookup until it returns, a goto_definition or
\* completion request holds the read guard of config, taken once; no step
\* taken while the request is under way changes the configuration, so every
\* import resolution of the request uses the same library paths.
UnderWay ==
    req.pc \in {"loop", "open_path", "read_and_open_symbols", "read",
                "update_symbols", "lookup"}
C28_ConfigSnapshot ==
    /\ [](UnderWay => <<"config", "read">> \in locks.held)
    /\ [][UnderWay =>
             /\ config' = config
             /\ \A i \in DOMAIN locks'.trace : locks'.trace[i].lock = "config"
                   => locks'.trace[i].op = "release"]_vars
\* a request is in its loop after a lookup in another file, and the client
\* could still send a configuration
C28_Witness ==
    /\ UnderWay
    /\ req.probed # {}
    /\ <<"config", "read">> \in locks.held
    /\ nEdits < MaxEdits

\* C29: every url that has an entry in the symbol cache has a Document in
\* the open-document table: an entry is created only for a url whose
\* Document is loaded, and no step removes a Document from the table.
C29_SymbolsOfOpenDocs ==
    /\ [](DOMAIN symbols \subseteq DOMAIN open_docs)
    /\ [][/\ DOMAIN open_docs \subseteq DOMAIN open_docs'
          /\ \A u \in DOMAIN symbols' \ DOMAIN symbols : u \in DOMAIN open_docs']_vars
\* the cache has the entry of a file the client changed and the entry of
\* the file that a request is looking into
C29_Witness ==
    /\ \E u \in DOMAIN symbols : u \in ClientUrls /\ u # req.url
    /\ \E u \in DOMAIN symbols : IsSome(req.cur) /\ u = Unwrap(req.cur)
    /\ Cardinality(DOMAIN symbols) >= 2
    /\ DOMAIN symbols \subseteq DOMAIN open_docs

====
